---------------------------- MODULE Spec2Model ----------------------------
(***************************************************************************)
(* A model of src/main_occ.py: the STEP -> JSON feature-extraction         *)
(* pipeline (read_step_file, extract_features, build_json, main).          *)
(*                                                                         *)
(* Real numbers.  The kernel hands back IEEE doubles.  The model takes     *)
(* kernel values from the grid m/128 (m an integer): every such value is   *)
(* an exactly representable double, so Python's round(x, 3), which rounds  *)
(* the exact binary value to the nearest multiple of 0.001 and an exact    *)
(* tie to the even one, is modelled exactly.  All reals, before and after  *)
(* rounding, are written as integers in units of 1/16000 (the common       *)
(* denominator of 1/128 and 1/1000): 1.0 is 16000, 0.001 is 16, 1/128 is   *)
(* 125.                                                                    *)
(*                                                                         *)
(* Python dicts.  A dict keeps its keys in insertion order, and json.dump  *)
(* writes them in that order.  A dict is modelled as                       *)
(* [keys |-> <sequence of keys>, val |-> <function key -> value>].         *)
(***************************************************************************)
EXTENDS Integers, Sequences, FiniteSets, TLC

(***************************************************************************)
(* Bounds of the model.                                                    *)
(***************************************************************************)
MaxFaces == 2

(***************************************************************************)
(* The kernel's enumerations.                                              *)
(***************************************************************************)
GeomAbs_Plane == 0
GeomAbs_Cylinder == 1
GeomAbs_Cone == 2
GeomAbs_Sphere == 3
GeomAbs_Torus == 4
GeomAbs_BezierSurface == 5
GeomAbs_BSplineSurface == 6
GeomAbs_SurfaceOfRevolution == 7
GeomAbs_SurfaceOfExtrusion == 8
GeomAbs_OffsetSurface == 9
GeomAbs_OtherSurface == 10

\* A value of the kernel's surface-type enumeration that the table of
\* get_surface_type_code does not hold.
UnknownSurfTypes == {11}

\* The statuses STEPControl_Reader.ReadFile can return (IFSelect_ReturnStatus:
\* RetVoid, RetDone, RetError, RetFail, RetStop); 1 is success.
ReaderStatuses == 0..4

(***************************************************************************)
(* get_surface_type_code                                                   *)
(***************************************************************************)
surface_types ==
    (GeomAbs_Plane :> "PLN") @@ (GeomAbs_Cylinder :> "CYL") @@
    (GeomAbs_Sphere :> "SPH") @@ (GeomAbs_Cone :> "CON") @@
    (GeomAbs_Torus :> "TOR") @@ (GeomAbs_BezierSurface :> "BEZ") @@
    (GeomAbs_BSplineSurface :> "BSP") @@
    (GeomAbs_SurfaceOfRevolution :> "REV") @@
    (GeomAbs_SurfaceOfExtrusion :> "EXT") @@
    (GeomAbs_OffsetSurface :> "OFS") @@ (GeomAbs_OtherSurface :> "OTH")

\* A lookup whose fallback is the last code of the table instead of "UNK".
get_surface_type_code_other(surf_type) ==
    IF surf_type \in DOMAIN surface_types THEN surface_types[surf_type]
    ELSE "OTH"

\* dict.get(surf_type, "UNK")
get_surface_type_code(surf_type) ==
    IF surf_type \in DOMAIN surface_types THEN surface_types[surf_type]
    ELSE "UNK"

(***************************************************************************)
(* round(x, 3) on a double of the grid, in units of 1/16000: the nearest   *)
(* multiple of 16, an exact tie going to the even multiple.                *)
(***************************************************************************)
\* Truncation toward minus infinity instead of rounding to nearest.
round3_floor(x) == 16 * (x \div 16)

round3(x) ==
    LET q == x \div 16
        r == x % 16
    IN  IF r < 8 THEN 16 * q
        ELSE IF r > 8 THEN 16 * (q + 1)
        ELSE IF q % 2 = 0 THEN 16 * q ELSE 16 * (q + 1)

round3_vec(v) == <<round3(v[1]), round3(v[2]), round3(v[3])>>

(***************************************************************************)
(* Python dict operations.                                                 *)
(***************************************************************************)
\* d[k] = v
DictSet(d, k, v) ==
    [keys |-> IF \E i \in 1..Len(d.keys) : d.keys[i] = k
              THEN d.keys ELSE Append(d.keys, k),
     val  |-> (k :> v) @@ d.val]

(***************************************************************************)
(* The input: what the kernel reports for the file.  A face is what the    *)
(* kernel reports for it: its surface type and its geometry.               *)
(*                                                                         *)
(* The two geometries hold doubles of the grid that round in every way:    *)
(* 1000 (0.0625) and -1000 are exact ties that go down to the even 0.062,  *)
(* 3000 (0.1875) and 201000 (12.5625) ties that go to 0.188 and 12.562,    *)
(* 125, 8125, -11375 and -3375 round away from zero, 375 and 11250 toward  *)
(* it, and 0, 2000 (0.125) and 16000 (1.0) are multiples of 0.001 already. *)
(***************************************************************************)
Geometries ==
    { [area |-> 1000, com |-> <<0, 3000, -1000>>, radius |-> 16000,
       axis |-> <<0, 0, 16000>>, semi_angle |-> 125],
      [area |-> 201000, com |-> <<-3000, 375, 2000>>, radius |-> 8125,
       axis |-> <<11250, -11375, 0>>, semi_angle |-> -3375] }

SurfTypes == DOMAIN surface_types \cup UnknownSurfTypes

Faces ==
    { [type |-> t, geom |-> g] : t \in SurfTypes, g \in Geometries }

\* The shapes of n faces, in the explorer's order.
Shapes(n) == [1..n -> Faces]

\* A file the reader rejects: there is no shape to speak of.
BadFile(s) == [status |-> s, faces |-> <<>>, fail_at |-> 0]

\* A file the reader accepts.  fail_at = 0: no geometric query raises;
\* fail_at = k: the queries on the k-th face raise (what the kernel would
\* do on later faces is never seen).
GoodFile(sh, k) == [status |-> 1, faces |-> sh, fail_at |-> k]

NoShape == [none |-> TRUE]
NoDoc == [keys |-> <<>>, val |-> <<>>]

VARIABLES
    file,         \* the STEP file, as the kernel sees it (the input)
    run,          \* which call of main this is
    pc,           \* main's position
    transfers,    \* how often step_reader.TransferRoots() has been called
    shape,        \* main: shape
    explorer,     \* extract_features: the explorer's position (0: not made)
    features,     \* extract_features: features / main: features
    index,        \* extract_features: index (0: not assigned)
    json_output,  \* main: json_output
    out_exists,   \* whether the output file exists on disk
    out_file,     \* the output file's text (the sequence of its pieces)
    opens,        \* how often the output file has been opened for writing
    err,          \* the unhandled error that ended the process
    stdout,       \* the confirmation lines printed
    written       \* per finished run, the output file as that run left it

vars == <<file, run, pc, transfers, shape, explorer, features, index, json_output,
          out_exists, out_file, opens, err, stdout, written>>

Init ==
    /\ \/ \E s \in ReaderStatuses \ {1} : file = BadFile(s)
       \/ \E n \in 0..MaxFaces : \E sh \in Shapes(n), k \in 0..n :
             file = GoodFile(sh, k)
    /\ run = 1
    /\ pc = "main_113"
    /\ transfers = 0
    /\ shape = NoShape
    /\ explorer = 0
    /\ features = <<>>
    /\ index = 0
    /\ json_output = NoDoc
    /\ out_exists = FALSE
    /\ out_file = <<>>
    /\ opens = 0
    /\ err = "none"
    /\ stdout = 0
    /\ written = <<>>

(***************************************************************************)
(* read_step_file                                                          *)
(***************************************************************************)
\* A check that treats only RetVoid as a failure.
StatusIsFailure_void(status) == status = 0

StatusIsFailure(status) == status # 1

ReadStepFile ==
    /\ pc = "main_113"
    /\ IF StatusIsFailure(file.status)
       THEN /\ err' = "ValueError"
            /\ pc' = "aborted"
            /\ UNCHANGED <<transfers, shape>>
       ELSE /\ transfers' = transfers + 1
            /\ shape' = file.faces
            /\ pc' = "main_114"
            /\ UNCHANGED err
    /\ UNCHANGED <<file, run, explorer, features, index, json_output,
                   out_exists, out_file, opens, stdout, written>>

(***************************************************************************)
(* extract_features                                                        *)
(***************************************************************************)
\* explorer.More()
More == explorer <= Len(shape)

\* The branches keyed in the order of the codes (CYL, SPH, CON) rather than
\* by the kernel's constants, so that the sphere's and the cone's are swapped.
TypeParams_swapped(feature, surf_type, geom) ==
    IF surf_type = 1
    THEN DictSet(DictSet(feature, "r", round3(geom.radius)),
                 "ad", round3_vec(geom.axis))
    ELSE IF surf_type = 2
    THEN DictSet(feature, "r", round3(geom.radius))
    ELSE IF surf_type = 3
    THEN DictSet(DictSet(feature, "r", round3(geom.radius)),
                 "sa", round3(geom.semi_angle))
    ELSE feature

\* The type-specific keys of lines 55-65, set on the record built at 48-53.
TypeParams(feature, surf_type, geom) ==
    IF surf_type = GeomAbs_Cylinder
    THEN DictSet(DictSet(feature, "r", round3(geom.radius)),
                 "ad", round3_vec(geom.axis))
    ELSE IF surf_type = GeomAbs_Sphere
    THEN DictSet(feature, "r", round3(geom.radius))
    ELSE IF surf_type = GeomAbs_Cone
    THEN DictSet(DictSet(feature, "r", round3(geom.radius)),
                 "sa", round3(geom.semi_angle))
    ELSE feature

\* The record of lines 48-65 for one face.
Feature(face, idx) ==
    TypeParams(
        [keys |-> <<"id", "st", "a", "com">>,
         val  |-> [id  |-> idx,
                   st  |-> get_surface_type_code(face.type),
                   a   |-> round3(face.geom.area),
                   com |-> round3_vec(face.geom.com)]],
        face.type, face.geom)

\* features kept from one call to the next (a list that outlives the call).
ExtractInit_keep ==
    /\ pc = "main_114"
    /\ explorer' = 1
    /\ features' = features
    /\ index' = Len(features) + 1
    /\ pc' = "loop_36"
    /\ UNCHANGED <<file, run, transfers, shape, json_output, out_exists, out_file,
                   opens, err, stdout, written>>

\* Lines 32-34.
ExtractInit ==
    /\ pc = "main_114"
    /\ explorer' = 1
    /\ features' = <<>>
    /\ index' = 1
    /\ pc' = "loop_36"
    /\ UNCHANGED <<file, run, transfers, shape, json_output, out_exists, out_file,
                   opens, err, stdout, written>>

\* A face whose queries raise is skipped and the traversal goes on.
LoopIter_skip ==
    /\ pc = "loop_36"
    /\ More
    /\ explorer' = explorer + 1
    /\ IF file.fail_at = explorer
       THEN UNCHANGED <<features, index>>
       ELSE /\ features' = Append(features, Feature(shape[explorer], index))
            /\ index' = index + 1
    /\ UNCHANGED <<err, pc>>
    /\ UNCHANGED <<file, run, transfers, shape, json_output, out_exists, out_file,
                   opens, stdout, written>>

\* index += 1 left out.
LoopIter_noincr ==
    /\ pc = "loop_36"
    /\ More
    /\ explorer' = explorer + 1
    /\ IF file.fail_at = explorer
       THEN /\ err' = "KernelError"
            /\ pc' = "aborted"
            /\ UNCHANGED <<features, index>>
       ELSE /\ features' = Append(features, Feature(shape[explorer], index))
            /\ UNCHANGED <<index, err, pc>>
    /\ UNCHANGED <<file, run, transfers, shape, json_output, out_exists, out_file,
                   opens, stdout, written>>

\* features.insert(0, feature) instead of features.append(feature).
LoopIter_prepend ==
    /\ pc = "loop_36"
    /\ More
    /\ explorer' = explorer + 1
    /\ IF file.fail_at = explorer
       THEN /\ err' = "KernelError"
            /\ pc' = "aborted"
            /\ UNCHANGED <<features, index>>
       ELSE /\ features' = <<Feature(shape[explorer], index)>> \o features
            /\ index' = index + 1
            /\ UNCHANGED <<err, pc>>
    /\ UNCHANGED <<file, run, transfers, shape, json_output, out_exists, out_file,
                   opens, stdout, written>>

\* One pass through the loop body, lines 36-68.  explorer.Next() comes
\* before the geometric queries; a query that raises ends the process.
LoopIter ==
    /\ pc = "loop_36"
    /\ More
    /\ explorer' = explorer + 1
    /\ IF file.fail_at = explorer
       THEN /\ err' = "KernelError"
            /\ pc' = "aborted"
            /\ UNCHANGED <<features, index>>
       ELSE /\ features' = Append(features, Feature(shape[explorer], index))
            /\ index' = index + 1
            /\ UNCHANGED <<err, pc>>
    /\ UNCHANGED <<file, run, transfers, shape, json_output, out_exists, out_file,
                   opens, stdout, written>>

\* A shape without faces treated as an error.
LoopExit_nonempty ==
    /\ pc = "loop_36"
    /\ ~More
    /\ IF features = <<>>
       THEN err' = "ValueError" /\ pc' = "aborted"
       ELSE pc' = "main_115" /\ UNCHANGED err
    /\ UNCHANGED <<file, run, transfers, shape, explorer, features, index,
                   json_output, out_exists, out_file, opens, stdout, written>>

\* Lines 36 and 69: the explorer is exhausted, features is returned.
LoopExit ==
    /\ pc = "loop_36"
    /\ ~More
    /\ pc' = "main_115"
    /\ UNCHANGED <<file, run, transfers, shape, explorer, features, index, json_output,
                   out_exists, out_file, opens, err, stdout, written>>

(***************************************************************************)
(* build_json                                                              *)
(***************************************************************************)
format_description ==
    "Format Description:\nTop-level fields:\n- \"id\": Part ID.\n- \"name\": Part name.\n- \"mat\": Material.\n- \"fts\": List of features.\n\nFeature fields:\n- \"id\": Feature ID, integer.\n- \"st\": Surface type, using abbreviated codes:\n  - \"PLN\": Plane\n  - \"CYL\": Cylinder\n  - \"SPH\": Sphere\n  - \"CON\": Cone\n  - \"TOR\": Torus\n  - \"BEZ\": Bezier Surface\n  - \"BSP\": BSpline Surface\n  - \"REV\": Surface of Revolution\n  - \"EXT\": Surface of Extrusion\n  - \"OFS\": Offset Surface\n  - \"OTH\": Other Surface\n- \"a\": Area.\n- \"com\": Center of mass coordinates, [x, y, z].\n\nAdditional fields for specific types:\n- \"r\": Radius (applicable to cylinder, sphere, cone, etc.).\n- \"ad\": Axis direction, [x, y, z] (applicable to cylinder).\n- \"sa\": Semi-angle, in radians (applicable to cone)."

\* The same string as json.dump writes it: quoted, each line break written
\* as backslash n and each double quote as backslash double-quote.
format_description_json ==
    "\"Format Description:\\nTop-level fields:\\n- \\\"id\\\": Part ID.\\n- \\\"name\\\": Part name.\\n- \\\"mat\\\": Material.\\n- \\\"fts\\\": List of features.\\n\\nFeature fields:\\n- \\\"id\\\": Feature ID, integer.\\n- \\\"st\\\": Surface type, using abbreviated codes:\\n  - \\\"PLN\\\": Plane\\n  - \\\"CYL\\\": Cylinder\\n  - \\\"SPH\\\": Sphere\\n  - \\\"CON\\\": Cone\\n  - \\\"TOR\\\": Torus\\n  - \\\"BEZ\\\": Bezier Surface\\n  - \\\"BSP\\\": BSpline Surface\\n  - \\\"REV\\\": Surface of Revolution\\n  - \\\"EXT\\\": Surface of Extrusion\\n  - \\\"OFS\\\": Offset Surface\\n  - \\\"OTH\\\": Other Surface\\n- \\\"a\\\": Area.\\n- \\\"com\\\": Center of mass coordinates, [x, y, z].\\n\\nAdditional fields for specific types:\\n- \\\"r\\\": Radius (applicable to cylinder, sphere, cone, etc.).\\n- \\\"ad\\\": Axis direction, [x, y, z] (applicable to cylinder).\\n- \\\"sa\\\": Semi-angle, in radians (applicable to cone).\""

\* The metadata put after the part's fields.
build_json_metadata_last(part_id, part_name, material, fts) ==
    [keys |-> <<"id", "name", "mat", "fts", "metadata">>,
     val  |-> [metadata |-> [keys |-> <<"format_description">>,
                             val  |-> [format_description |-> format_description]],
               id       |-> part_id,
               name     |-> part_name,
               mat      |-> material,
               fts      |-> fts]]

build_json(part_id, part_name, material, fts) ==
    [keys |-> <<"metadata", "id", "name", "mat", "fts">>,
     val  |-> [metadata |-> [keys |-> <<"format_description">>,
                             val  |-> [format_description |-> format_description]],
               id       |-> part_id,
               name     |-> part_name,
               mat      |-> material,
               fts      |-> fts]]

(***************************************************************************)
(* json.dump(..., ensure_ascii=False, indent=2, separators=(',', ':')).    *)
(* The text written is modelled as the sequence of its pieces, each the    *)
(* very characters written: a bracket, a comma, a colon, a line break with *)
(* its indentation, a quoted string, an integer, a float.  The file's text *)
(* is the pieces one after the other.                                      *)
(***************************************************************************)
RECURSIVE Indent(_)
Indent(depth) == IF depth = 0 THEN "" ELSE "  " \o Indent(depth - 1)

\* The line break before an item at the given depth.
TokNewline(depth) == "\n" \o Indent(depth)

\* A str.  Of the strings main writes only format_description holds
\* characters that JSON escapes.
TokStr(s) ==
    IF s = format_description THEN format_description_json
    ELSE "\"" \o s \o "\""

\* An int.
TokInt(n) == ToString(n)

RECURSIVE ZeroPad(_, _)
ZeroPad(f, width) ==
    IF width <= 1 \/ f >= 10 ^ (width - 1) THEN ToString(f)
    ELSE "0" \o ZeroPad(f, width - 1)

RECURSIVE FracDigits(_, _)
FracDigits(f, width) ==
    IF f = 0 THEN "0"
    ELSE IF f % 10 = 0 THEN FracDigits(f \div 10, width - 1)
    ELSE ZeroPad(f, width)

\* A float: float.__repr__, the shortest decimal that reads back as the
\* same double.  For a double of the grid (m/128) and for a multiple of
\* 0.001 that is its decimal expansion, of at most 7 digits (x * 625 is x
\* in units of 10^-7) and at least one.
TokFloat(x) ==
    LET n == (IF x < 0 THEN -x ELSE x) * 625
    IN  (IF x < 0 THEN "-" ELSE "")
        \o ToString(n \div 10000000) \o "." \o FracDigits(n % 10000000, 7)

RECURSIVE JoinItems(_, _)
JoinItems(items, sep) ==
    IF Len(items) = 0 THEN <<>>
    ELSE IF Len(items) = 1 THEN items[1]
    ELSE items[1] \o sep \o JoinItems(Tail(items), sep)

\* A list or dict with its items (already encoded, at depth + 1); an empty
\* one is written "[]" or "{}" with no line break.
DumpContainer(open, close, items, depth) ==
    IF Len(items) = 0 THEN <<open, close>>
    ELSE <<open, TokNewline(depth + 1)>>
         \o JoinItems(items, <<",", TokNewline(depth + 1)>>)
         \o <<TokNewline(depth), close>>

DumpFloatList(xs, depth) ==
    DumpContainer("[", "]", [i \in 1..Len(xs) |-> <<TokFloat(xs[i])>>], depth)

\* A feature's value by the Python type the key holds.
DumpFeatureValue(k, v, depth) ==
    IF k = "id" THEN <<TokInt(v)>>
    ELSE IF k = "st" THEN <<TokStr(v)>>
    ELSE IF k \in {"com", "ad"} THEN DumpFloatList(v, depth)
    ELSE <<TokFloat(v)>>

DumpFeature(f, depth) ==
    DumpContainer("{", "}",
        [i \in 1..Len(f.keys) |->
            <<TokStr(f.keys[i]), ":">>
            \o DumpFeatureValue(f.keys[i], f.val[f.keys[i]], depth + 1)],
        depth)

DumpDocValue(k, v, depth) ==
    IF k = "metadata"
    THEN DumpContainer("{", "}",
            [i \in 1..Len(v.keys) |->
                <<TokStr(v.keys[i]), ":", TokStr(v.val[v.keys[i]])>>],
            depth)
    ELSE IF k = "fts"
    THEN DumpContainer("[", "]",
            [i \in 1..Len(v) |-> DumpFeature(v[i], depth + 1)], depth)
    ELSE <<TokStr(v)>>

json_dump(doc) ==
    DumpContainer("{", "}",
        [i \in 1..Len(doc.keys) |->
            <<TokStr(doc.keys[i]), ":">>
            \o DumpDocValue(doc.keys[i], doc.val[doc.keys[i]], 1)],
        0)

(***************************************************************************)
(* main                                                                    *)
(***************************************************************************)
\* Line 115.
BuildJson ==
    /\ pc = "main_115"
    /\ json_output' = build_json("P001", "SamplePart", "Steel", features)
    /\ pc' = "main_117"
    /\ UNCHANGED <<file, run, transfers, shape, explorer, features, index, out_exists,
                   out_file, opens, err, stdout, written>>

\* Line 117: open(output_filename, "w") creates or truncates the file.
OpenOutput ==
    /\ pc = "main_117"
    /\ out_exists' = TRUE
    /\ out_file' = <<>>
    /\ opens' = opens + 1
    /\ pc' = "main_118"
    /\ UNCHANGED <<file, run, transfers, shape, explorer, features, index, json_output,
                   err, stdout, written>>

\* Line 118, and the close at the end of the with block.
JsonDump ==
    /\ pc = "main_118"
    /\ out_file' = json_dump(json_output)
    /\ pc' = "main_119"
    /\ UNCHANGED <<file, run, transfers, shape, explorer, features, index, json_output,
                   out_exists, opens, err, stdout, written>>

\* Line 119; main returns.
PrintDone ==
    /\ pc = "main_119"
    /\ stdout' = stdout + 1
    /\ written' = Append(written, out_file)
    /\ pc' = "done"
    /\ UNCHANGED <<file, run, transfers, shape, explorer, features, index, json_output,
                   out_exists, out_file, opens, err>>

\* main is called a second time in the same process, on the same file.  The
\* locals of the first call are dead: the second call assigns each before
\* it reads it.
MainAgain ==
    /\ pc = "done"
    /\ run = 1
    /\ run' = 2
    /\ pc' = "main_113"
    /\ UNCHANGED <<file, transfers, shape, explorer, features, index, json_output,
                   out_exists, out_file, opens, err, stdout, written>>

Next ==
    \/ ReadStepFile
    \/ ExtractInit
    \/ LoopIter
    \/ LoopExit
    \/ BuildJson
    \/ OpenOutput
    \/ JsonDump
    \/ PrintDone
    \/ MainAgain

Spec == Init /\ [][Next]_vars

(***************************************************************************)
(* Vocabulary of the properties.                                           *)
(***************************************************************************)
NumFaces == Len(file.faces)

\* extract_features has returned in this call of main, or main has.
Returned == pc \in {"main_115", "main_117", "main_118", "main_119", "done"}

\* extract_features has been entered at least once.
Started == explorer # 0

HasKey(d, k) == \E i \in 1..Len(d.keys) : d.keys[i] = k

\* The code each kernel surface kind is documented to have.
ExpectedCode(t) ==
    CASE t = GeomAbs_Plane -> "PLN"
      [] t = GeomAbs_Cylinder -> "CYL"
      [] t = GeomAbs_Sphere -> "SPH"
      [] t = GeomAbs_Cone -> "CON"
      [] t = GeomAbs_Torus -> "TOR"
      [] t = GeomAbs_BezierSurface -> "BEZ"
      [] t = GeomAbs_BSplineSurface -> "BSP"
      [] t = GeomAbs_SurfaceOfRevolution -> "REV"
      [] t = GeomAbs_SurfaceOfExtrusion -> "EXT"
      [] t = GeomAbs_OffsetSurface -> "OFS"
      [] t = GeomAbs_OtherSurface -> "OTH"
      [] OTHER -> "UNK"

(***************************************************************************)
(* C1.  One record per face, ids 1..N in traversal order: at every point   *)
(* of the traversal (and after it) the record at position k has id k and   *)
(* carries the type and the area of the k-th face, index is                *)
(* len(features) + 1, and once extract_features has returned the list has  *)
(* exactly as many records as the shape has faces.                         *)
(***************************************************************************)
C1_IdsFollowTraversal ==
    /\ Started =>
          /\ index = Len(features) + 1
          /\ Len(features) <= NumFaces
          /\ \A k \in 1..Len(features) :
                /\ features[k].val.id = k
                /\ features[k].val.st = ExpectedCode(file.faces[k].type)
                /\ features[k].val.a = round3(file.faces[k].geom.area)
    /\ Returned => Len(features) = NumFaces

C1_Witness ==
    /\ pc = "main_115"
    /\ Len(features) = 2
    /\ features[1].val.st # features[2].val.st
    /\ features[1].val.a # features[2].val.a
    /\ features[2].val.id = 2

(***************************************************************************)
(* C2.  Type-field presence: in every record built, whatever the kernel's  *)
(* surface type value, "r" is a key iff st is CYL, SPH or CON, "ad" iff st *)
(* is CYL, and "sa" iff st is CON.                                         *)
(***************************************************************************)
C2_TypeFieldPresence ==
    \A k \in 1..Len(features) :
        LET f == features[k]
        IN  /\ HasKey(f, "r") <=> f.val.st \in {"CYL", "SPH", "CON"}
            /\ HasKey(f, "ad") <=> f.val.st = "CYL"
            /\ HasKey(f, "sa") <=> f.val.st = "CON"
            /\ DOMAIN f.val = {f.keys[i] : i \in 1..Len(f.keys)}

C2_Witness ==
    /\ Len(features) = 2
    /\ features[1].val.st = "CON" /\ HasKey(features[1], "sa")
    /\ features[2].val.st = "UNK" /\ ~HasKey(features[2], "r")

(***************************************************************************)
(* C3.  The eleven kinds of the table get their own, pairwise distinct     *)
(* codes, every other kernel value gets "UNK"; the lookup never ends the   *)
(* run (the only error of the traversal is a geometric query that raises), *)
(* so a face of unknown type yields a record and the traversal goes on to  *)
(* the next face.                                                          *)
(***************************************************************************)
C3_UnknownTypeIsUNK ==
    /\ \A k \in 1..Len(features) :
          /\ features[k].val.st = ExpectedCode(file.faces[k].type)
          /\ file.faces[k].type \notin DOMAIN surface_types
                <=> features[k].val.st = "UNK"
          /\ \A j \in 1..Len(features) :
                features[j].val.st = features[k].val.st
                   => file.faces[j].type = file.faces[k].type
    /\ err = "KernelError" => file.fail_at = explorer - 1
    /\ (pc = "loop_36" /\ file.fail_at = 0) => Len(features) = explorer - 1
    /\ (Returned /\ file.fail_at = 0) => Len(features) = NumFaces

C3_Witness ==
    /\ pc = "done"
    /\ Len(features) = 2
    /\ file.faces[1].type \in UnknownSurfTypes
    /\ features[1].val.st = "UNK"
    /\ features[2].val.st = "OTH"

(***************************************************************************)
(* C4.  A reader status other than success ends the run with the load      *)
(* error: no roots transferred, no shape returned, extraction not started, *)
(* the output file neither opened nor created.  With the success status    *)
(* the shape is returned and the load error is not raised.                 *)
(***************************************************************************)
C4_LoadErrorAborts ==
    /\ (file.status # 1 /\ pc # "main_113") =>
          /\ pc = "aborted"
          /\ err = "ValueError"
          /\ transfers = 0
          /\ shape = NoShape
          /\ ~Started /\ index = 0 /\ features = <<>>
          /\ opens = 0 /\ ~out_exists /\ out_file = <<>>
          /\ stdout = 0
    /\ (file.status = 1 /\ pc # "main_113") =>
          /\ err # "ValueError"
          /\ transfers = run
          /\ shape = file.faces

C4_Witness ==
    /\ file.status = 3
    /\ pc = "aborted"
    /\ err = "ValueError"

Positions(text) == [i \in 1..Len(text) |-> i]

KeyPositions(text, depth) ==
    LET nl == "\n" \o Indent(depth)
    IN  SelectSeq(Positions(text),
                  LAMBDA i : /\ 1 < i /\ i < Len(text)
                             /\ text[i - 1] = nl /\ text[i + 1] = ":")

KeysAt(text, depth) ==
    LET at == KeyPositions(text, depth)
    IN  [j \in 1..Len(at) |-> text[at[j]]]

\* Of the key positions kp, those of one key.
PositionsOf(text, kp, key) ==
    LET quoted == "\"" \o key \o "\""
    IN  SelectSeq(kp, LAMBDA i : text[i] = quoted)

ScalarsOf(text, kp, key) ==
    LET at == PositionsOf(text, kp, key)
    IN  [j \in 1..Len(at) |-> text[at[j] + 2]]

VectorsOf(text, kp, key) ==
    LET at == PositionsOf(text, kp, key)
    IN  [j \in 1..Len(at) |->
            <<text[at[j] + 4], text[at[j] + 7], text[at[j] + 10]>>]

Quoted(keys) == [i \in 1..Len(keys) |-> "\"" \o keys[i] \o "\""]

\* A number of thousandths written with at most three decimals.
Decimal3(k) ==
    LET n == IF k < 0 THEN -k ELSE k
        f == n % 1000
    IN  (IF k < 0 THEN "-" ELSE "") \o ToString(n \div 1000) \o "."
        \o (IF f = 0 THEN "0"
            ELSE IF f % 100 = 0 THEN ToString(f \div 100)
            ELSE IF f % 10 = 0
                 THEN (IF f < 100 THEN "0" ELSE "") \o ToString(f \div 10)
            ELSE (IF f < 10 THEN "00" ELSE IF f < 100 THEN "0" ELSE "")
                 \o ToString(f))

\* main holds a document built in this call.
Built == pc \in {"main_117", "main_118", "main_119", "done"}

\* main has written the document in this call.
Dumped == pc \in {"main_119", "done"}

(***************************************************************************)
(* C6.  Idempotence: a second run of main on the same file, in the same    *)
(* process, leaves the output file exactly as the first run left it.       *)
(***************************************************************************)
C6_SecondRunSameOutput ==
    /\ (run = 2 /\ Dumped) => out_file = written[1]
    /\ Len(written) = 2 => written[2] = written[1]

C6_Witness ==
    /\ run = 2
    /\ pc = "done"
    /\ Len(features) = 2
    /\ Len(written) = 2
    /\ Len(written[2]) > 2

(***************************************************************************)
(* C7.  A loaded shape with no faces: the loop body never runs, the list   *)
(* returned is empty, nothing fails, the run goes on to the write step,    *)
(* and the document written has metadata, id, name, mat and fts, with fts  *)
(* written as [].                                                          *)
(***************************************************************************)
EmptyShapeText ==
    << "{", "\n  ",
       "\"metadata\"", ":", "{", "\n    ",
       "\"format_description\"", ":", format_description_json,
       "\n  ", "}", ",", "\n  ",
       "\"id\"", ":", "\"P001\"", ",", "\n  ",
       "\"name\"", ":", "\"SamplePart\"", ",", "\n  ",
       "\"mat\"", ":", "\"Steel\"", ",", "\n  ",
       "\"fts\"", ":", "[", "]",
       "\n", "}" >>

C7_ZeroFacesStillWrites ==
    (file.status = 1 /\ NumFaces = 0) =>
        /\ features = <<>>
        /\ index \in {0, 1} /\ explorer \in {0, 1}
        /\ err = "none" /\ pc # "aborted"
        /\ Built => json_output.val.fts = <<>>
        /\ Dumped => out_exists /\ out_file = EmptyShapeText
        /\ pc # "done" => ENABLED Next

C7_Witness ==
    /\ file.status = 1 /\ NumFaces = 0
    /\ pc = "done"
    /\ out_exists
    /\ stdout = 1

(***************************************************************************)
(* C8.  Shape of the document: top-level keys metadata, id, name, mat,     *)
(* fts in that order, id/name/mat as supplied by the caller, fts the       *)
(* features in extraction order; each feature's keys are id, st, a, com,   *)
(* then r, ad for a cylinder, r for a sphere, r, sa for a cone, nothing    *)
(* more for any other type.  The same holds of the text written.           *)
(***************************************************************************)
ExpectedKeys(st) ==
    <<"id", "st", "a", "com">>
    \o (CASE st = "CYL" -> <<"r", "ad">>
          [] st = "SPH" -> <<"r">>
          [] st = "CON" -> <<"r", "sa">>
          [] OTHER -> <<>>)

C8_DocumentShape ==
    /\ \A k \in 1..Len(features) :
          features[k].keys = ExpectedKeys(features[k].val.st)
    /\ Built =>
          /\ json_output.keys = <<"metadata", "id", "name", "mat", "fts">>
          /\ json_output.val.id = "P001"
          /\ json_output.val.name = "SamplePart"
          /\ json_output.val.mat = "Steel"
          /\ json_output.val.fts = features
    /\ Dumped =>
          /\ KeysAt(out_file, 1) =
                Quoted(<<"metadata", "id", "name", "mat", "fts">>)
          /\ KeysAt(out_file, 2) = <<"\"format_description\"">>
          /\ LET kp == KeyPositions(out_file, 3)
             IN  /\ [j \in 1..Len(kp) |-> out_file[kp[j]]] =
                       Quoted(JoinItems([k \in 1..Len(features) |->
                                            features[k].keys], <<>>))
                 /\ ScalarsOf(out_file, kp, "id") =
                       [k \in 1..Len(features) |-> ToString(k)]
                 /\ ScalarsOf(out_file, kp, "st") =
                       Quoted([k \in 1..Len(features) |-> features[k].val.st])
          /\ \E i \in 1..(Len(out_file) - 13) :
                SubSeq(out_file, i, i + 13) =
                   << "\"id\"", ":", "\"P001\"", ",", "\n  ",
                      "\"name\"", ":", "\"SamplePart\"", ",", "\n  ",
                      "\"mat\"", ":", "\"Steel\"", "," >>

C8_Witness ==
    /\ pc = "done"
    /\ Len(features) = 2
    /\ features[1].keys = <<"id", "st", "a", "com", "r", "ad">>
    /\ features[2].keys = <<"id", "st", "a", "com", "r", "sa">>
    /\ Len(KeysAt(out_file, 3)) = 12

(***************************************************************************)
(* C9.  Every real of a record is a multiple of 0.001, namely the multiple *)
(* nearest to the kernel's value (an exact tie taken to the even one); the *)
(* document holds the records unchanged and the text written holds exactly *)
(* these numbers, each with at most three decimals.                        *)
(***************************************************************************)
\* The reals of a record, in key order.
RealsOf(f) ==
    JoinItems([i \in 1..Len(f.keys) |->
                  IF f.keys[i] \in {"a", "r", "sa"} THEN <<f.val[f.keys[i]]>>
                  ELSE IF f.keys[i] \in {"com", "ad"} THEN f.val[f.keys[i]]
                  ELSE <<>>], <<>>)

\* The kernel's values behind them.
KernelRealsOf(f, geom) ==
    JoinItems([i \in 1..Len(f.keys) |->
                  CASE f.keys[i] = "a" -> <<geom.area>>
                    [] f.keys[i] = "com" -> geom.com
                    [] f.keys[i] = "r" -> <<geom.radius>>
                    [] f.keys[i] = "ad" -> geom.axis
                    [] f.keys[i] = "sa" -> <<geom.semi_angle>>
                    [] OTHER -> <<>>], <<>>)

Dist(x, y) == IF x >= y THEN x - y ELSE y - x

C9_RoundedOnceToThreeDecimals ==
    /\ \A k \in 1..Len(features) :
          LET rs == RealsOf(features[k])
              ks == KernelRealsOf(features[k], file.faces[k].geom)
          IN  /\ Len(rs) = Len(ks)
              /\ Len(rs) >= 4
              /\ \A i \in 1..Len(rs) :
                    /\ rs[i] % 16 = 0
                    /\ Dist(rs[i], ks[i]) <= 8
                    /\ Dist(rs[i], ks[i]) = 8 => (rs[i] \div 16) % 2 = 0
    /\ Built => json_output.val.fts = features
    /\ Dumped =>
          LET kp == KeyPositions(out_file, 3)
              Vec(v) == [i \in 1..3 |-> Decimal3(v[i] \div 16)]
              Where(key, Written(_)) ==
                  JoinItems([k \in 1..Len(features) |->
                                IF HasKey(features[k], key)
                                THEN <<Written(features[k].val[key])>>
                                ELSE <<>>], <<>>)
              Scalar(x) == Decimal3(x \div 16)
          IN  /\ ScalarsOf(out_file, kp, "a") = Where("a", Scalar)
              /\ VectorsOf(out_file, kp, "com") = Where("com", Vec)
              /\ ScalarsOf(out_file, kp, "r") = Where("r", Scalar)
              /\ VectorsOf(out_file, kp, "ad") = Where("ad", Vec)
              /\ ScalarsOf(out_file, kp, "sa") = Where("sa", Scalar)

C9_Witness ==
    /\ pc = "done"
    /\ Len(features) = 2
    /\ features[1].val.st = "CON"
    /\ file.faces[1].geom.semi_angle = -3375
    /\ features[1].val.sa = -3376
    /\ features[2].val.a = 992
    /\ file.faces[2].geom.area = 1000

(***************************************************************************)
(* C10.  The feature list only grows by appending.  A pass through the     *)
(* loop body that does not fail advances the explorer by one face and      *)
(* appends one record, the one built from that face; every other step,     *)
(* apart from extract_features making its new empty list, leaves the list  *)
(* as it is; the document built holds the list unchanged.  The loop ends   *)
(* with the explorer N faces on and N records in the list.                 *)
(***************************************************************************)
C10_AppendOnlyStep ==
    /\ (pc = "loop_36" /\ pc' = "loop_36") =>
          /\ explorer' = explorer + 1
          /\ Len(features') = Len(features) + 1
          /\ SubSeq(features', 1, Len(features)) = features
          /\ features'[Len(features')].val.id = Len(features) + 1
          /\ features'[Len(features')].val.st =
                ExpectedCode(shape[explorer].type)
    /\ ~(pc = "loop_36" /\ pc' = "loop_36") /\ pc # "main_114" =>
          features' = features
    /\ pc' \in {"main_117", "main_118", "main_119", "done"} =>
          json_output'.val.fts = features
    /\ pc' = "main_115" =>
          /\ explorer' = NumFaces + 1
          /\ Len(features') = NumFaces

C10_AppendOnly == [][C10_AppendOnlyStep]_vars

C10_Witness ==
    /\ pc = "loop_36"
    /\ NumFaces = 2
    /\ explorer = 2
    /\ Len(features) = 1
    /\ run = 2
=============================================================================
